---------------------------- MODULE Spec2Model ----------------------------
(***************************************************************************)
(* Incremental RAG index maintenance (ollama_rag_creation_updation.py) and *)
(* the text cleaning helpers (data_cleaning.py).                           *)
(*                                                                         *)
(* Text, file names and paths are sequences of one-character strings, so   *)
(* that lower(), endswith(), basename(), join(), str.replace(), re.split() *)
(* and the "03d" format are computed character by character.               *)
(***************************************************************************)
EXTENDS Integers, Sequences, FiniteSets, TLC

VARIABLES
    folder,     \* pdf_folder on disk: file name -> content, or Absent
    store,      \* the persisted Chroma collection: entries in insertion order
    db,         \* process_pdfs: the collection held by the Chroma object `db`
    pc,         \* stage of the current update_rag invocation
    step,       \* position inside the stage (loop body / merge)
    existing,   \* update_rag: the dict returned by load_existing_metadata
    new_pdfs,   \* update_rag: the list returned by get_new_pdfs
    idx,        \* process_pdfs: 1-based position of `filepath` in pdf_files
    chunks,     \* process_pdfs: `chunks` of the file being processed
    all_docs,   \* process_pdfs: `all_docs`
    error,      \* the exception that ended the run, "none" if none
    run,        \* number of update_rag invocations so far
    preStore,   \* history: the persisted collection when the run started
    lastOk,     \* history: the last run ended in Done and nothing was edited since
    rerun,      \* history: this run started with lastOk
    text,       \* data_cleaning: the text handed to the helper
    out,        \* data_cleaning: the helper's result
    out2,       \* data_cleaning: the helper applied to its own result
    textPc,     \* data_cleaning: "ready", "once", "twice"; "idle" in a run
    tagFiles,   \* tagging loop alone: <<file name, number of chunks>> so far
    tagged      \* tagging loop alone: the entries tagged so far, in order

runVars == <<folder, store, db, pc, step, existing, new_pdfs, idx, chunks,
             all_docs, error, run, preStore, lastOk, rerun>>
textVars == <<text, out, out2, textPc>>
tagVars == <<tagFiles, tagged>>
vars == <<folder, store, db, pc, step, existing, new_pdfs, idx, chunks,
          all_docs, error, run, preStore, lastOk, rerun,
          text, out, out2, textPc, tagFiles, tagged>>

---------------------------------------------------------------------------
(* Bounds *)

\* update_rag invocations explored
MaxRuns == 3

---------------------------------------------------------------------------
(* Sequences *)

Range(s) == {s[i] : i \in 1..Len(s)}

IsPrefix(s, t) == Len(s) <= Len(t) /\ SubSeq(t, 1, Len(s)) = s

\* str.endswith
EndsWith(s, suffix) ==
    /\ Len(s) >= Len(suffix)
    /\ SubSeq(s, Len(s) - Len(suffix) + 1, Len(s)) = suffix

UpperLetters ==
    <<"A", "B", "C", "D", "E", "F", "G", "H", "I", "J", "K", "L", "M",
      "N", "O", "P", "Q", "R", "S", "T", "U", "V", "W", "X", "Y", "Z">>

LowerLetters ==
    <<"a", "b", "c", "d", "e", "f", "g", "h", "i", "j", "k", "l", "m",
      "n", "o", "p", "q", "r", "s", "t", "u", "v", "w", "x", "y", "z">>

Digits == <<"0", "1", "2", "3", "4", "5", "6", "7", "8", "9">>

\* str.lower on one character
LowerChar(c) ==
    IF \E k \in 1..Len(UpperLetters) : UpperLetters[k] = c
    THEN LowerLetters[CHOOSE k \in 1..Len(UpperLetters) : UpperLetters[k] = c]
    ELSE c

\* str.lower
Lower(s) == [i \in 1..Len(s) |-> LowerChar(s[i])]

---------------------------------------------------------------------------
(* Files, paths and fingerprints *)

Absent == "absent"

\* what a PDF's bytes are, by what the pipeline makes of them
Contents == {"empty", "one", "two", "corrupt"}

NameA == <<"a", ".", "p", "d", "f">>
NameB == <<"b", ".", "P", "D", "F">>
NameT == <<"p", "d", "f">>
Names == {NameA, NameB, NameT}
\* the names an edit of the folder writes or deletes between runs
PdfNames == {NameA, NameB}

\* os.listdir: some fixed order of the names
ListingOrder == <<NameB, NameT, NameA>>

\* cfg.PDF_FOLDER
PdfFolder == <<"d">>

\* os.listdir(pdf_folder)
ListDir(f) == SelectSeq(ListingOrder, LAMBDA n : f[n] # Absent)

\* os.path.join(pdf_folder, filename)
Join(dir, filename) == dir \o <<"/">> \o filename

\* os.path.basename: what follows the last "/"
RECURSIVE Basename(_)
Basename(path) ==
    IF \A i \in 1..Len(path) : path[i] # "/"
    THEN path
    ELSE Basename(Tail(path))

\* get_file_hash: the MD5 digest of the bytes read
GetFileHash(content) == <<"md5", content>>

\* loader.load() raises on a file it cannot parse
Loadable(content) == content # "corrupt"

\* loader.load, cleaning and text_splitter.split_documents: the chunk texts
SplitDocuments(content) ==
    CASE content = "one" -> << <<content, "t0">> >>
      [] content = "two" -> << <<content, "t0">>, <<content, "t1">> >>
      [] OTHER -> << >>

---------------------------------------------------------------------------
(* Chunk identity: the tagging loop of process_pdfs *)

\* width of the ordinal in "{idx:03d}"
IdWidth == 3

DigitChar(d) == Digits[d + 1]

\* str(n) for n >= 0: the decimal digits, most significant first
RECURSIVE Decimal(_)
Decimal(n) ==
    IF n < 10 THEN <<DigitChar(n)>>
    ELSE Decimal(n \div 10) \o <<DigitChar(n % 10)>>

\* zero padding on the left up to a minimum width
RECURSIVE ZeroPad(_, _)
ZeroPad(digits, width) ==
    IF Len(digits) >= width THEN digits
    ELSE ZeroPad(<<"0">> \o digits, width)

\* the chunk id without the zero padding: f"{basename}_{idx}"
ChunkIdUnpadded(basename, i) == basename \o <<"_">> \o Decimal(i)

\* f"{os.path.basename(filepath)}_{idx:03d}"
ChunkId(basename, i) == basename \o <<"_">> \o ZeroPad(Decimal(i), IdWidth)

\* lines 171-175: enumerate(chunks) and the four metadata assignments;
\* fresh stands for the uuid4 generator: <<run, entries tagged before>>
TagChunks(chunkTexts, filepath, file_hash, fresh) ==
    [i \in 1..Len(chunkTexts) |->
        [page_content |-> chunkTexts[i],
         source       |-> filepath,
         hash         |-> file_hash,
         chunk_id     |-> ChunkId(Basename(filepath), i - 1),
         uuid         |-> <<fresh[1], fresh[2] + i>>]]

---------------------------------------------------------------------------
(* load_existing_metadata and get_new_pdfs *)

EmptyDict == [x \in {} |-> Absent]

\* existing.setdefault(key, value): the first value stored under a key stays
DictSetDefault(d, key, value) ==
    IF key \in DOMAIN d THEN d
    ELSE [x \in (DOMAIN d) \cup {key} |-> IF x = key THEN value ELSE d[x]]

\* existing[key] = value
DictSet(d, key, value) ==
    [x \in (DOMAIN d) \cup {key} |-> IF x = key THEN value ELSE d[x]]

\* lines 71-75: the loop over docs["metadatas"], in the order db.get returns
\* them (insertion order)
RECURSIVE CollectHashes(_, _)
CollectHashes(metadatas, acc) ==
    IF metadatas = << >> THEN acc
    ELSE LET meta == Head(metadatas)
         IN  CollectHashes(Tail(metadatas),
                           DictSet(acc, Basename(meta.source), meta.hash))

LoadExistingMetadata(collection) == CollectHashes(collection, EmptyDict)

PdfExt == <<".", "p", "d", "f">>

\* the loop with the comparison of hashes left out: only unknown names count
RECURSIVE ScanListingNewOnly(_, _, _, _)
ScanListingNewOnly(listing, f, existing_hashes, new_files) ==
    IF listing = << >> THEN new_files
    ELSE LET filename == Head(listing)
             filepath == Join(PdfFolder, filename)
         IN  IF ~EndsWith(Lower(filename), PdfExt)
             THEN ScanListingNewOnly(Tail(listing), f, existing_hashes,
                                     new_files)
             ELSE IF filename \notin DOMAIN existing_hashes
                  THEN ScanListingNewOnly(Tail(listing), f, existing_hashes,
                                          Append(new_files, filepath))
                  ELSE ScanListingNewOnly(Tail(listing), f, existing_hashes,
                                          new_files)

\* new_files.insert(0, filepath) in place of the append of line 112
RECURSIVE ScanListingPrepend(_, _, _, _)
ScanListingPrepend(listing, f, existing_hashes, new_files) ==
    IF listing = << >> THEN new_files
    ELSE LET filename == Head(listing)
             filepath == Join(PdfFolder, filename)
             file_hash == GetFileHash(f[filename])
         IN  IF ~EndsWith(Lower(filename), PdfExt)
             THEN ScanListingPrepend(Tail(listing), f, existing_hashes,
                                     new_files)
             ELSE IF \/ filename \notin DOMAIN existing_hashes
                     \/ existing_hashes[filename] # file_hash
                  THEN ScanListingPrepend(Tail(listing), f, existing_hashes,
                                          <<filepath>> \o new_files)
                  ELSE ScanListingPrepend(Tail(listing), f, existing_hashes,
                                          new_files)

\* lines 98-112: the loop over os.listdir(pdf_folder)
RECURSIVE ScanListing(_, _, _, _)
ScanListing(listing, f, existing_hashes, new_files) ==
    IF listing = << >> THEN new_files
    ELSE LET filename == Head(listing)
             filepath == Join(PdfFolder, filename)
             file_hash == GetFileHash(f[filename])
         IN  IF ~EndsWith(Lower(filename), PdfExt)
             THEN ScanListing(Tail(listing), f, existing_hashes, new_files)
             ELSE IF \/ filename \notin DOMAIN existing_hashes
                     \/ existing_hashes[filename] # file_hash
                  THEN ScanListing(Tail(listing), f, existing_hashes,
                                   Append(new_files, filepath))
                  ELSE ScanListing(Tail(listing), f, existing_hashes, new_files)

GetNewPdfs(f, existing_hashes) ==
    ScanListing(ListDir(f), f, existing_hashes, << >>)

---------------------------------------------------------------------------
(* The Chroma collection *)

\* add_documents that first drops the entries of the sources it re-indexes
AddDocumentsReplacing(collection, docs, outcome) ==
    IF outcome = "ok"
    THEN SelectSeq(collection,
                   LAMBDA e : \A i \in 1..Len(docs) : docs[i].source # e.source)
         \o docs
    ELSE collection

\* db.add_documents(all_docs): every text is embedded, then the batch is
\* written under fresh ids; an embedding or store error raises before
\* anything is written
AddDocuments(collection, docs, outcome) ==
    IF outcome = "ok" THEN collection \o docs ELSE collection

\* a flush that is not atomic: on an error all but the last entry is on disk
PersistTorn(durable, collection, outcome) ==
    IF outcome = "ok" THEN collection
    ELSE IF Len(collection) > Len(durable)
         THEN SubSeq(collection, 1, Len(collection) - 1)
         ELSE durable

\* db.persist(): the collection replaces what is on disk, or the flush
\* raises and the disk keeps what it had
Persist(durable, collection, outcome) ==
    IF outcome = "ok" THEN collection ELSE durable

---------------------------------------------------------------------------
(* update_rag, one step at a time *)

RunInit ==
    /\ folder = [n \in Names |-> Absent]
    /\ store = << >>
    /\ db = << >>
    /\ pc = "Idle"
    /\ step = "none"
    /\ existing = EmptyDict
    /\ new_pdfs = << >>
    /\ idx = 1
    /\ chunks = << >>
    /\ all_docs = << >>
    /\ error = "none"
    /\ run = 0
    /\ preStore = << >>
    /\ lastOk = FALSE
    /\ rerun = FALSE

TextIdle == text = << >> /\ out = << >> /\ out2 = << >> /\ textPc = "idle"

TagIdle == tagFiles = << >> /\ tagged = << >>

Init == RunInit /\ TextIdle /\ TagIdle

\* a PDF is written to the folder (new, or replacing other content)
WriteFile ==
    /\ pc = "Idle"
    /\ \E n \in PdfNames, c \in Contents :
          /\ folder[n] # c
          /\ folder' = [folder EXCEPT ![n] = c]
    /\ lastOk' = FALSE
    /\ UNCHANGED <<store, db, pc, step, existing, new_pdfs, idx, chunks,
                   all_docs, error, run, preStore, rerun>>
    /\ UNCHANGED <<textVars, tagVars>>

\* a file is deleted from the folder
DeleteFile ==
    /\ pc = "Idle"
    /\ \E n \in PdfNames :
          /\ folder[n] # Absent
          /\ folder' = [folder EXCEPT ![n] = Absent]
    /\ lastOk' = FALSE
    /\ UNCHANGED <<store, db, pc, step, existing, new_pdfs, idx, chunks,
                   all_docs, error, run, preStore, rerun>>
    /\ UNCHANGED <<textVars, tagVars>>

\* update_rag(pdf_folder, persist_dir) is called
StartRun ==
    /\ pc = "Idle"
    /\ run < MaxRuns
    /\ pc' = "Scanning"
    /\ run' = run + 1
    /\ step' = "none"
    /\ existing' = EmptyDict
    /\ new_pdfs' = << >>
    /\ idx' = 1
    /\ chunks' = << >>
    /\ all_docs' = << >>
    /\ db' = << >>
    /\ error' = "none"
    /\ preStore' = store
    /\ rerun' = lastOk
    /\ UNCHANGED <<folder, store, lastOk>>
    /\ UNCHANGED <<textVars, tagVars>>

\* line 213: existing = load_existing_metadata(persist_dir)
Scan ==
    /\ pc = "Scanning"
    /\ existing' = LoadExistingMetadata(store)
    /\ pc' = "Detecting"
    /\ UNCHANGED <<folder, store, db, step, new_pdfs, idx, chunks, all_docs,
                   error, run, preStore, lastOk, rerun>>
    /\ UNCHANGED <<textVars, tagVars>>

\* process_pdfs without the early return of lines 135-137: on an empty list
\* the loop runs over no file and the merge follows
DetectNoEarlyReturn ==
    /\ pc = "Detecting"
    /\ new_pdfs' = GetNewPdfs(folder, existing)
    /\ IF new_pdfs' = << >>
       THEN pc' = "Merging" /\ step' = "add"
       ELSE pc' = "Processing" /\ step' = "load"
    /\ UNCHANGED <<folder, store, db, existing, idx, chunks, all_docs,
                   error, run, preStore, lastOk, rerun>>
    /\ UNCHANGED <<textVars, tagVars>>

\* line 216 and lines 135-137: new_pdfs = get_new_pdfs(...); process_pdfs
\* returns at once on an empty list
Detect ==
    /\ pc = "Detecting"
    /\ new_pdfs' = GetNewPdfs(folder, existing)
    /\ IF new_pdfs' = << >>
       THEN pc' = "Done" /\ step' = "none"
       ELSE pc' = "Processing" /\ step' = "load"
    /\ UNCHANGED <<folder, store, db, existing, idx, chunks, all_docs,
                   error, run, preStore, lastOk, rerun>>
    /\ UNCHANGED <<textVars, tagVars>>

\* a loader that waits for a readable file instead of raising: the run stays
\* at the file it cannot load
LoadFileRetry ==
    /\ pc = "Processing"
    /\ step = "load"
    /\ LET content == folder[Basename(new_pdfs[idx])]
       IN  IF Loadable(content)
           THEN /\ chunks' = SplitDocuments(content)
                /\ step' = "tag"
           ELSE UNCHANGED <<chunks, step>>
    /\ UNCHANGED <<pc, error>>
    /\ UNCHANGED <<folder, store, db, existing, new_pdfs, idx, all_docs,
                   run, preStore, lastOk, rerun>>
    /\ UNCHANGED <<textVars, tagVars>>

\* lines 154-165: loader.load(), cleaning, split_documents; an exception of
\* the loader is not caught and leaves process_pdfs and update_rag
LoadFile ==
    /\ pc = "Processing"
    /\ step = "load"
    /\ LET content == folder[Basename(new_pdfs[idx])]
       IN  IF Loadable(content)
           THEN /\ chunks' = SplitDocuments(content)
                /\ step' = "tag"
                /\ UNCHANGED <<pc, error>>
           ELSE /\ pc' = "Failed"
                /\ error' = "extraction"
                /\ step' = "none"
                /\ UNCHANGED chunks
    /\ UNCHANGED <<folder, store, db, existing, new_pdfs, idx, all_docs,
                   run, preStore, lastOk, rerun>>
    /\ UNCHANGED <<textVars, tagVars>>

\* the loop body writing each file's chunks to the store as it goes
TagFileEager ==
    /\ pc = "Processing"
    /\ step = "tag"
    /\ LET filepath == new_pdfs[idx]
           file_hash == GetFileHash(folder[Basename(filepath)])
           entries == TagChunks(chunks, filepath, file_hash,
                                <<run, Len(all_docs)>>)
       IN  /\ all_docs' = all_docs \o entries
           /\ store' = store \o entries
    /\ chunks' = << >>
    /\ idx' = idx + 1
    /\ IF idx = Len(new_pdfs)
       THEN pc' = "Merging" /\ step' = "add"
       ELSE pc' = "Processing" /\ step' = "load"
    /\ UNCHANGED <<folder, db, existing, new_pdfs, error, run,
                   preStore, lastOk, rerun>>
    /\ UNCHANGED <<textVars, tagVars>>

\* lines 168-178: the second hash, the metadata, all_docs.extend(chunks);
\* after the last file the loop ends
TagFile ==
    /\ pc = "Processing"
    /\ step = "tag"
    /\ LET filepath == new_pdfs[idx]
           file_hash == GetFileHash(folder[Basename(filepath)])
       IN  all_docs' = all_docs \o
              TagChunks(chunks, filepath, file_hash, <<run, Len(all_docs)>>)
    /\ chunks' = << >>
    /\ idx' = idx + 1
    /\ IF idx = Len(new_pdfs)
       THEN pc' = "Merging" /\ step' = "add"
       ELSE pc' = "Processing" /\ step' = "load"
    /\ UNCHANGED <<folder, store, db, existing, new_pdfs, error, run,
                   preStore, lastOk, rerun>>
    /\ UNCHANGED <<textVars, tagVars>>

MergeOutcomes == {"ok", "embedding", "store"}

\* lines 184-187: db = Chroma(persist_directory=...); db.add_documents(all_docs)
AddStep ==
    /\ pc = "Merging"
    /\ step = "add"
    /\ \E outcome \in MergeOutcomes :
          /\ db' = AddDocuments(store, all_docs, outcome)
          /\ IF outcome = "ok"
             THEN step' = "persist" /\ UNCHANGED <<pc, error>>
             ELSE pc' = "Failed" /\ error' = outcome /\ step' = "none"
    /\ UNCHANGED <<folder, store, existing, new_pdfs, idx, chunks, all_docs,
                   run, preStore, lastOk, rerun>>
    /\ UNCHANGED <<textVars, tagVars>>

\* line 190: db.persist()
PersistStep ==
    /\ pc = "Merging"
    /\ step = "persist"
    /\ \E outcome \in {"ok", "store"} :
          /\ store' = Persist(store, db, outcome)
          /\ IF outcome = "ok"
             THEN pc' = "Done" /\ UNCHANGED error
             ELSE pc' = "Failed" /\ error' = outcome
    /\ step' = "none"
    /\ UNCHANGED <<folder, db, existing, new_pdfs, idx, chunks, all_docs,
                   run, preStore, lastOk, rerun>>
    /\ UNCHANGED <<textVars, tagVars>>

\* update_rag returns, or its exception reaches the caller
Return ==
    /\ pc \in {"Done", "Failed"}
    /\ lastOk' = (pc = "Done")
    /\ pc' = "Idle"
    /\ UNCHANGED <<folder, store, db, step, existing, new_pdfs, idx, chunks,
                   all_docs, error, run, preStore, rerun>>
    /\ UNCHANGED <<textVars, tagVars>>

Next ==
    \/ WriteFile
    \/ DeleteFile
    \/ StartRun
    \/ Scan
    \/ Detect
    \/ LoadFile
    \/ TagFile
    \/ AddStep
    \/ PersistStep
    \/ Return

Spec == Init /\ [][Next]_vars

---------------------------------------------------------------------------
(* get_new_pdfs on every folder and every fingerprint table *)

Hashes == {GetFileHash(c) : c \in Contents}

Dicts == UNION {[S -> Hashes] : S \in SUBSET Names}

DetectInit ==
    /\ folder \in [Names -> Contents \cup {Absent}]
    /\ existing \in Dicts
    /\ pc = "Detecting"
    /\ store = << >>
    /\ db = << >>
    /\ step = "none"
    /\ new_pdfs = << >>
    /\ idx = 1
    /\ chunks = << >>
    /\ all_docs = << >>
    /\ error = "none"
    /\ run = 0
    /\ preStore = << >>
    /\ lastOk = FALSE
    /\ rerun = FALSE
    /\ TextIdle
    /\ TagIdle

SpecDetect == DetectInit /\ [][Detect]_vars

---------------------------------------------------------------------------
(* Claims about change detection and the run *)

\* the names the extension filter accepts: a ".pdf" suffix in any casing
PdfSuffixes ==
    {<<".", p, d, f>> : p \in {"p", "P"}, d \in {"d", "D"}, f \in {"f", "F"}}

Accepted(n) == Len(n) >= 4 /\ SubSeq(n, Len(n) - 3, Len(n)) \in PdfSuffixes

NewOrChanged(f, K) ==
    {n \in Names : /\ f[n] # Absent
                   /\ Accepted(n)
                   /\ (n \notin DOMAIN K \/ K[n] # GetFileHash(f[n]))}

\* C1: once get_new_pdfs has returned, the files it returned are exactly the
\* files of the folder with an accepted name that are new (no key of the
\* table) or changed (their fingerprint differs from the table's)
DetectedExactly ==
    pc \in {"Processing", "Done"} =>
        Range(new_pdfs) = {Join(PdfFolder, n) : n \in NewOrChanged(folder, existing)}

\* C1 witness: an unchanged file left out, a changed upper-case .PDF
\* returned, and a file without the extension ignored
DetectedExactlyWitness ==
    /\ pc = "Processing"
    /\ folder[NameT] # Absent
    /\ NameA \in DOMAIN existing
    /\ folder[NameA] # Absent
    /\ existing[NameA] = GetFileHash(folder[NameA])
    /\ NameB \in DOMAIN existing
    /\ new_pdfs = <<Join(PdfFolder, NameB)>>

\* the entries the current run has added to the persisted collection
NewEntries == SubSeq(store, Len(preStore) + 1, Len(store))

\* the run has merged the chunks of the file's current content
Merged(filepath) ==
    LET content == folder[Basename(filepath)]
        es == SelectSeq(NewEntries, LAMBDA e : e.source = filepath)
    IN  /\ Len(es) > 0
        /\ [i \in 1..Len(es) |-> es[i].page_content] = SplitDocuments(content)
        /\ \A i \in 1..Len(es) : es[i].hash = GetFileHash(content)

\* the files the next invocation would detect in the folder as it is
DetectedNext == Range(GetNewPdfs(folder, LoadExistingMetadata(store)))

\* C2: a run that follows a successful run, with no edit of the folder in
\* between, detects no file and adds nothing to the store
NoOpStability == rerun => (new_pdfs = << >> /\ store = preStore)

\* C3: when the run has ended and neither the embedding nor the store
\* failed, every file of the work list that can be extracted has been merged,
\* whatever happened to the other files
FailureIsolation ==
    \A i \in 1..Len(new_pdfs) :
        LET content == folder[Basename(new_pdfs[i])]
        IN  (/\ pc \in {"Done", "Failed"}
             /\ error \notin {"embedding", "store"}
             /\ Loadable(content)
             /\ SplitDocuments(content) # << >>)
            => Merged(new_pdfs[i])

\* C4: a run in which the embedding or the store write failed has ended in
\* failure and the persisted collection (hence the fingerprint table read
\* from it) is what it was when the run started
FailClosed ==
    error \in {"embedding", "store"} =>
        /\ pc \in {"Failed", "Idle"}
        /\ store = preStore
        /\ LoadExistingMetadata(store) = LoadExistingMetadata(preStore)

\* C4 witness: a merge of several entries into a non-empty store has failed
FailClosedWitness ==
    /\ pc = "Failed"
    /\ error \in {"embedding", "store"}
    /\ Len(all_docs) >= 2
    /\ store # << >>

\* C5: when a run has ended, every file it detected has been merged or will
\* be detected again by the next invocation on the same folder
NoSilentDrop ==
    pc \in {"Done", "Failed"} =>
        \A i \in 1..Len(new_pdfs) :
            Merged(new_pdfs[i]) \/ new_pdfs[i] \in DetectedNext

\* C5 witness: the run failed on its second file after tagging the first,
\* so the first file's change waits for the next invocation
NoSilentDropWitness ==
    /\ pc = "Failed"
    /\ error = "extraction"
    /\ Len(new_pdfs) = 2
    /\ idx = 2
    /\ all_docs # << >>

\* C6: after a successful run the fingerprint table read from the store maps
\* every processed file to the fingerprint of its current content
FingerprintRecorded ==
    pc = "Done" =>
        \A i \in 1..Len(new_pdfs) :
            LET n == Basename(new_pdfs[i])
                K == LoadExistingMetadata(store)
            IN  n \in DOMAIN K /\ K[n] = GetFileHash(folder[n])

\* C7: no step removes or changes an entry of the persisted collection, and
\* a run that ends in Done leaves the collection it found followed by
\* exactly the entries it tagged
AppendOnly ==
    [][/\ IsPrefix(store, store')
       /\ (pc' = "Done" /\ pc # "Done") => store' = preStore' \o all_docs']_vars

\* C7 witness: a successful run added entries to a store that holds entries
\* of a file since deleted and superseded entries of a changed file
AppendOnlyWitness ==
    /\ pc = "Done"
    /\ Len(store) > Len(preStore)
    /\ \E i \in 1..Len(preStore) :
          folder[Basename(preStore[i].source)] = Absent
    /\ \E i \in 1..Len(preStore), j \in 1..Len(all_docs) :
          /\ preStore[i].source = all_docs[j].source
          /\ preStore[i].hash # all_docs[j].hash

---------------------------------------------------------------------------
(* The tagging loop on its own, on files of up to MaxChunks chunks *)

\* the largest number of chunks of one file
MaxChunks == 1001

\* the numbers of chunks tried: the small ones, those around a change of
\* the number of digits, and the largest
ChunkCounts == {0, 1, 2, 3, 9, 10, 11, 99, 100, 101, MaxChunks - 1, MaxChunks}

\* the chunk texts of a file of n chunks, in document order
ChunkTexts(n) == [i \in 1..n |-> <<"chunk", i>>]

TagInit == RunInit /\ TextIdle /\ TagIdle

\* lines 168-178 for the next file of the work list: tag its chunks and
\* extend the accumulated list
TagNextFile ==
    /\ Len(tagFiles) < Cardinality(PdfNames)
    /\ \E name \in PdfNames, n \in ChunkCounts :
          /\ \A k \in 1..Len(tagFiles) : tagFiles[k][1] # name
          /\ tagFiles' = Append(tagFiles, <<name, n>>)
          /\ tagged' = tagged \o
                TagChunks(ChunkTexts(n), Join(PdfFolder, name),
                          GetFileHash("one"), <<1, Len(tagged)>>)
    /\ UNCHANGED <<runVars, textVars>>

SpecTag == TagInit /\ [][TagNextFile]_vars

\* code points of the characters of a chunk id
CharCode(c) ==
    IF \E k \in 1..10 : Digits[k] = c
    THEN 47 + CHOOSE k \in 1..10 : Digits[k] = c
    ELSE IF \E k \in 1..26 : UpperLetters[k] = c
    THEN 64 + CHOOSE k \in 1..26 : UpperLetters[k] = c
    ELSE IF \E k \in 1..26 : LowerLetters[k] = c
    THEN 96 + CHOOSE k \in 1..26 : LowerLetters[k] = c
    ELSE IF c = "_" THEN 95
    ELSE IF c = "." THEN 46
    ELSE 47

\* s sorts before t as a string
LexLess(s, t) ==
    \E k \in 1..(Len(t)) :
        /\ k <= Len(s) + 1
        /\ \A j \in 1..(k - 1) : s[j] = t[j]
        /\ (k = Len(s) + 1 \/ CharCode(s[k]) < CharCode(t[k]))

\* the number a digit string denotes
RECURSIVE DecimalValue(_)
DecimalValue(ds) ==
    IF ds = << >> THEN 0
    ELSE 10 * DecimalValue(SubSeq(ds, 1, Len(ds) - 1))
         + (CharCode(ds[Len(ds)]) - 48)

\* the ordinal a chunk id of a file carries: what follows "<basename>_"
OrdinalOf(id, basename) ==
    IF /\ Len(id) > Len(basename) + 1
       /\ SubSeq(id, 1, Len(basename) + 1) = basename \o <<"_">>
       /\ \A j \in (Len(basename) + 2)..Len(id) :
             \E k \in 1..10 : Digits[k] = id[j]
    THEN DecimalValue(SubSeq(id, Len(basename) + 2, Len(id)))
    ELSE -1

\* number of entries tagged before the k-th file
RECURSIVE TagOffset(_)
TagOffset(k) == IF k = 1 THEN 0 ELSE TagOffset(k - 1) + tagFiles[k - 1][2]

\* C8: the chunks of every file carry the ordinals 0..N-1 in document order,
\* starting again at 0 for each file, and when N <= 1000 every chunk id
\* sorts before the id of the chunk that follows it
ChunkOrdinals ==
    /\ Len(tagged) = TagOffset(Len(tagFiles) + 1)
    /\ \A k \in 1..Len(tagFiles) :
          LET name == tagFiles[k][1]
              n == tagFiles[k][2]
              at == TagOffset(k)
          IN  /\ \A i \in 1..n :
                    /\ tagged[at + i].page_content = ChunkTexts(n)[i]
                    /\ Basename(tagged[at + i].source) = name
                    /\ OrdinalOf(tagged[at + i].chunk_id, name) = i - 1
              /\ n <= 1000 =>
                    \A i \in 1..(n - 1) :
                        LexLess(tagged[at + i].chunk_id,
                                tagged[at + i + 1].chunk_id)

\* C8 witness: a second file of 1000 chunks tagged after a first file with
\* chunks of its own
ChunkOrdinalsWitness ==
    /\ Len(tagFiles) = 2
    /\ tagFiles[1][2] >= 2
    /\ tagFiles[2][2] = 1000
    /\ OrdinalOf(tagged[Len(tagged)].chunk_id, tagFiles[2][1]) = 999

---------------------------------------------------------------------------
(* data_cleaning.py: normalize_text and remove_references *)

\* the longest text handed to normalize_text
MaxTextLen == 3
\* the largest number of pieces a text handed to remove_references is made of
MaxPieces == 4

\* the glyphs normalize_text replaces and the characters it writes for them
LigFi == "U+FB01"
LigFl == "U+FB02"
LDQuote == "U+201C"
RDQuote == "U+201D"
RSQuote == "U+2019"
Quote == "U+0022"
Apos == "U+0027"

\* str.replace(old, new) for a one-character old
RECURSIVE StrReplace(_, _, _)
StrReplace(t, old, new) ==
    IF t = << >> THEN << >>
    ELSE (IF Head(t) = old THEN new ELSE <<Head(t)>>)
         \o StrReplace(Tail(t), old, new)

\* normalize_text with the apostrophe glyph turned into the closing quote glyph
NormalizeTextWrongQuote(t) ==
    LET t1 == StrReplace(StrReplace(t, LigFi, <<"f", "i">>), LigFl, <<"f", "l">>)
    IN  StrReplace(StrReplace(StrReplace(t1, LDQuote, <<Quote>>),
                              RDQuote, <<Quote>>),
                   RSQuote, <<RDQuote>>)

\* normalize_text, lines 22-24
NormalizeText(t) ==
    LET t1 == StrReplace(StrReplace(t, LigFi, <<"f", "i">>), LigFl, <<"f", "l">>)
    IN  StrReplace(StrReplace(StrReplace(t1, LDQuote, <<Quote>>),
                              RDQuote, <<Quote>>),
                   RSQuote, <<Apos>>)

\* \w of the regular expression: letters, digits and the underscore
IsWordChar(c) ==
    \/ \E k \in 1..Len(UpperLetters) : UpperLetters[k] = c
    \/ \E k \in 1..Len(LowerLetters) : LowerLetters[k] = c
    \/ \E k \in 1..Len(Digits) : Digits[k] = c
    \/ c = "_"

\* \b after the first k characters of t
WordBoundary(t, k) ==
    (k >= 1 /\ IsWordChar(t[k])) # (k < Len(t) /\ IsWordChar(t[k + 1]))

RefWord == <<"R", "e", "f", "e", "r", "e", "n", "c", "e", "s">>
BibWord == <<"B", "i", "b", "l", "i", "o", "g", "r", "a", "p", "h", "y">>

\* the literal matched at pos without the two \b
MatchWordAtNoBoundary(t, pos, word) ==
    /\ pos + Len(word) - 1 <= Len(t)
    /\ Lower(SubSeq(t, pos, pos + Len(word) - 1)) = Lower(word)

\* \bword\b matches at pos under re.IGNORECASE
MatchWordAt(t, pos, word) ==
    /\ pos + Len(word) - 1 <= Len(t)
    /\ WordBoundary(t, pos - 1)
    /\ Lower(SubSeq(t, pos, pos + Len(word) - 1)) = Lower(word)
    /\ WordBoundary(t, pos + Len(word) - 1)

\* length of the match of \bReferences\b|\bBibliography\b at pos, 0 if none
MatchLen(t, pos) ==
    IF MatchWordAt(t, pos, RefWord) THEN Len(RefWord)
    ELSE IF MatchWordAt(t, pos, BibWord) THEN Len(BibWord)
    ELSE 0

\* re.split: scan from pos; the part being collected starts at partStart
RECURSIVE ReSplitFrom(_, _, _)
ReSplitFrom(t, pos, partStart) ==
    IF pos > Len(t) THEN <<SubSeq(t, partStart, Len(t))>>
    ELSE IF MatchLen(t, pos) > 0
    THEN <<SubSeq(t, partStart, pos - 1)>>
         \o ReSplitFrom(t, pos + MatchLen(t, pos), pos + MatchLen(t, pos))
    ELSE ReSplitFrom(t, pos + 1, partStart)

ReSplit(t) == ReSplitFrom(t, 1, 1)

\* remove_references, lines 28-29
RemoveReferences(t) ==
    LET parts == ReSplit(t)
    IN  IF parts # << >> THEN parts[1] ELSE t

NormAlphabet ==
    {"f", "i", "l", LigFi, LigFl, LDQuote, RDQuote, RSQuote, Quote, Apos}

NormTexts == UNION {[1..n -> NormAlphabet] : n \in 0..MaxTextLen}

RefPieces ==
    {RefWord,
     <<"r", "E", "F", "E", "R", "E", "N", "C", "E", "S">>,
     BibWord,
     <<"b", "I", "B", "L", "I", "O", "G", "R", "A", "P", "H", "Y">>,
     <<" ">>, <<"\n">>, <<"x">>, <<"_">>}

RECURSIVE Flatten(_)
Flatten(ps) == IF ps = << >> THEN << >> ELSE Head(ps) \o Flatten(Tail(ps))

RefTexts == {Flatten(ps) : ps \in UNION {[1..n -> RefPieces] : n \in 0..MaxPieces}}

NormInit ==
    /\ RunInit
    /\ TagIdle
    /\ text \in NormTexts
    /\ out = << >>
    /\ out2 = << >>
    /\ textPc = "ready"

RefInit ==
    /\ RunInit
    /\ TagIdle
    /\ text \in RefTexts
    /\ out = << >>
    /\ out2 = << >>
    /\ textPc = "ready"

\* out = normalize_text(text)
NormalizeOnce ==
    /\ textPc = "ready"
    /\ out' = NormalizeText(text)
    /\ textPc' = "once"
    /\ UNCHANGED <<text, out2, runVars, tagVars>>

\* out2 = normalize_text(out)
NormalizeTwice ==
    /\ textPc = "once"
    /\ out2' = NormalizeText(out)
    /\ textPc' = "twice"
    /\ UNCHANGED <<text, out, runVars, tagVars>>

\* out = remove_references(text)
RemoveOnce ==
    /\ textPc = "ready"
    /\ out' = RemoveReferences(text)
    /\ textPc' = "once"
    /\ UNCHANGED <<text, out2, runVars, tagVars>>

NormNext == NormalizeOnce \/ NormalizeTwice

SpecNormalize == NormInit /\ [][NormNext]_vars

SpecReferences == RefInit /\ [][RemoveOnce]_vars

\* C9: normalizing a normalized text changes nothing
NormalizeIdempotent == textPc = "twice" => out2 = out

\* C9 witness: a text with a ligature and a quote glyph has been normalized
\* twice, and the first pass changed it
NormalizeIdempotentWitness ==
    /\ textPc = "twice"
    /\ \E i, j \in 1..Len(text) : text[i] = LigFi /\ text[j] = RSQuote
    /\ out # text

\* the upper-case form of a lower-case letter, the character itself otherwise
UpperOf(c) ==
    IF \E k \in 1..26 : LowerLetters[k] = c
    THEN UpperLetters[CHOOSE k \in 1..26 : LowerLetters[k] = c]
    ELSE c

\* t holds one of the two tokens, in any casing, as a whole word right after
\* its first k characters
WholeWordAfter(t, k) ==
    \E w \in {Lower(RefWord), Lower(BibWord)} :
        /\ k + Len(w) <= Len(t)
        /\ \A j \in 1..Len(w) : t[k + j] \in {w[j], UpperOf(w[j])}
        /\ (k = 0 \/ ~IsWordChar(t[k]))
        /\ (k + Len(w) = Len(t) \/ ~IsWordChar(t[k + Len(w) + 1]))

\* C10: remove_references returns the text before the first whole-word
\* occurrence of References or Bibliography in any casing, and the text
\* itself when there is no such occurrence
ReferenceTruncation ==
    textPc = "once" =>
        IF \E k \in 0..Len(text) : WholeWordAfter(text, k)
        THEN \E k \in 0..Len(text) :
                /\ WholeWordAfter(text, k)
                /\ \A j \in 0..(k - 1) : ~WholeWordAfter(text, j)
                /\ out = SubSeq(text, 1, k)
        ELSE out = text

\* C10 witness: a text with an occurrence inside a longer word before a
\* whole-word occurrence has been cut at the latter
ReferenceTruncationWitness ==
    /\ textPc = "once"
    /\ text = <<"x">> \o RefWord \o <<" ">> \o BibWord
    /\ out = <<"x">> \o RefWord \o <<" ">>

\* the steps of update_rag itself: once called, the interpreter runs it to
\* its return or to the exception that leaves it
RunStep == Scan \/ Detect \/ LoadFile \/ TagFile \/ AddStep \/ PersistStep

\* update_rag under a scheduler that keeps running a call that has begun
FairSpec == Spec /\ WF_vars(RunStep)

\* another program rewrites the file the loop is at: before loader.load()
\* of line 155 (step "load") or between it and get_file_hash of line 168
\* (step "tag"); the path is opened anew by each of the two calls
ModifyDuringRun ==
    /\ pc = "Processing"
    /\ \E c \in Contents \ {folder[Basename(new_pdfs[idx])]} :
          folder' = [folder EXCEPT ![Basename(new_pdfs[idx])] = c]
    /\ lastOk' = FALSE
    /\ UNCHANGED <<store, db, pc, step, existing, new_pdfs, idx, chunks,
                   all_docs, error, run, preStore, rerun>>
    /\ UNCHANGED <<textVars, tagVars>>

\* any folder of PDF files, and an empty store
ConcurrentInit ==
    /\ folder \in [Names -> Contents \cup {Absent}]
    /\ folder[NameT] = Absent
    /\ store = << >>
    /\ db = << >>
    /\ pc = "Idle"
    /\ step = "none"
    /\ existing = EmptyDict
    /\ new_pdfs = << >>
    /\ idx = 1
    /\ chunks = << >>
    /\ all_docs = << >>
    /\ error = "none"
    /\ run = 0
    /\ preStore = << >>
    /\ lastOk = FALSE
    /\ rerun = FALSE
    /\ TextIdle
    /\ TagIdle

ConcurrentNext ==
    \/ StartRun
    \/ Scan
    \/ Detect
    \/ LoadFile
    \/ ModifyDuringRun
    \/ TagFile
    \/ AddStep
    \/ PersistStep
    \/ Return

\* update_rag called again and again over a folder that other programs
\* write to while it runs
SpecConcurrent == ConcurrentInit /\ [][ConcurrentNext]_vars

---------------------------------------------------------------------------
(* Claims about the stages of a run *)

\* C11: a run whose work list is empty is in Done (or has returned from it)
\* as soon as detection is over: no file was loaded, nothing was tagged,
\* add_documents and persist were not called, no exception was raised and
\* the persisted collection is the one the run found
NoOpRun ==
    (new_pdfs = << >> /\ pc \notin {"Scanning", "Detecting"}) =>
        /\ pc \in {"Done", "Idle"}
        /\ step = "none"
        /\ idx = 1
        /\ chunks = << >>
        /\ all_docs = << >>
        /\ db = << >>
        /\ error = "none"
        /\ store = preStore

\* C11 witness: a run over a folder that holds an indexed, unchanged file
\* has ended in Done with an empty work list
NoOpRunWitness ==
    /\ pc = "Done"
    /\ new_pdfs = << >>
    /\ store # << >>
    /\ \E n \in PdfNames : folder[n] # Absent

\* position of a path in the work list
PositionIn(files, filepath) ==
    CHOOSE i \in 1..Len(files) : files[i] = filepath

\* the entries are those of files of the work list already attempted, file
\* after file in the order of the work list
InWorkListOrder(docs, files, attempted) ==
    /\ \A i \in 1..Len(docs) :
          /\ docs[i].source \in Range(files)
          /\ PositionIn(files, docs[i].source) <= attempted
    /\ \A i, j \in 1..Len(docs) :
          i < j => PositionIn(files, docs[i].source)
                      <= PositionIn(files, docs[j].source)

\* C12: within a run the collection is opened and written by one
\* add_documents call, made when every file of the work list has been
\* attempted, with the run's entries as one batch in work-list order behind
\* the entries found (and nothing written when the call raises); the
\* persisted store changes in one step only, the persist that follows that
\* call, and that step is the one that ends the run in Done
SingleBatchWrite ==
    [][/\ InWorkListOrder(all_docs', new_pdfs', idx' - 1)
       /\ (db' # db /\ pc # "Idle") =>
             /\ pc = "Merging" /\ step = "add"
             /\ db = << >>
             /\ idx = Len(new_pdfs) + 1
             /\ IF pc' = "Failed"
                THEN db' = store
                ELSE db' = store \o all_docs
       /\ store' # store =>
             /\ pc = "Merging" /\ step = "persist"
             /\ store = preStore
             /\ store' = db
             /\ db = preStore \o all_docs
             /\ pc' = "Done"
       /\ (pc' = "Done" /\ pc # "Done" /\ new_pdfs # << >>) =>
             /\ pc = "Merging" /\ step = "persist"
             /\ store' = preStore \o all_docs]_vars

\* C12 witness: a run over two files has ended in Done with the entries of
\* both behind the entries it found
SingleBatchWriteWitness ==
    /\ pc = "Done"
    /\ Len(new_pdfs) = 2
    /\ preStore # << >>
    /\ store = preStore \o all_docs
    /\ \E i, j \in 1..Len(all_docs) :
          /\ all_docs[i].source = new_pdfs[1]
          /\ all_docs[j].source = new_pdfs[2]

\* a run that has begun and has not ended
Running == pc \in {"Scanning", "Detecting", "Processing", "Merging"}

\* the stage changes a step may make
StageOrder ==
    {<<"Idle", "Scanning">>, <<"Scanning", "Detecting">>,
     <<"Detecting", "Processing">>, <<"Detecting", "Done">>,
     <<"Processing", "Merging">>, <<"Processing", "Failed">>,
     <<"Merging", "Done">>, <<"Merging", "Failed">>,
     <<"Done", "Idle">>, <<"Failed", "Idle">>}

\* steps left before the run ends, at most
StepsLeft ==
    CASE pc = "Scanning" -> 2 * (Cardinality(Names) + 2) + 1
      [] pc = "Detecting" -> 2 * (Cardinality(Names) + 2)
      [] pc = "Processing" ->
            2 * (Len(new_pdfs) - idx + 1) + 2 + (IF step = "load" THEN 1 ELSE 0)
      [] pc = "Merging" -> IF step = "add" THEN 2 ELSE 1
      [] OTHER -> 0

\* C13: the stages of a run follow one another in the order Idle, Scanning,
\* Detecting, Processing, Merging, Done, with Detecting going straight to
\* Done on an empty work list and Failed reachable from Processing and
\* Merging; every step inside a stage brings the end of the run closer, and
\* a run that has begun reaches Done or Failed
RunTerminates ==
    /\ [][/\ pc' # pc => <<pc, pc'>> \in StageOrder
          /\ (pc = "Detecting" /\ pc' = "Done") <=> 
                (pc = "Detecting" /\ new_pdfs' = << >>)
          /\ Running => StepsLeft' < StepsLeft]_vars
    /\ (Running ~> pc \in {"Done", "Failed"})

\* C13 witness: a run has passed through Processing and Merging and is in
\* Done
RunTerminatesWitness ==
    /\ pc = "Done"
    /\ new_pdfs # << >>
    /\ idx = Len(new_pdfs) + 1
    /\ store = preStore \o all_docs

\* C14: every entry a run has produced or stored carries as 'hash' the
\* fingerprint of the bytes its text was extracted from, also when the file
\* is rewritten while the run is at it
HashOfExtractedBytes ==
    \A i \in 1..Len(all_docs \o store) :
        LET e == (all_docs \o store)[i]
        IN  e.hash = GetFileHash(e.page_content[1])

---------------------------------------------------------------------------
(* Claims about the entries of the store *)

\* the (source basename, hash, chunk_id) triple of an entry
Identity(e) == <<Basename(e.source), e.hash, e.chunk_id>>

\* C15, as stated: the store holds at most one entry for each
\* (source basename, hash, chunk_id) triple
UniqueTriples ==
    \A i, j \in 1..Len(store) :
        Identity(store[i]) = Identity(store[j]) => i = j

\* C15, amended: two entries of the store with the same (source basename,
\* hash, chunk_id) triple are separated by an entry of the same file with
\* another hash: a content is indexed again only after another content of
\* the file was indexed in between
NoDuplicateWithoutChange ==
    \A i, j \in 1..Len(store) :
        (i < j /\ Identity(store[i]) = Identity(store[j])) =>
            \E k \in (i + 1)..(j - 1) :
                /\ Basename(store[k].source) = Basename(store[i].source)
                /\ store[k].hash # store[i].hash

\* C15 witness: after successful runs over a file that was changed and then
\* reverted, the store holds two entries with the same triple
DuplicateAfterRevert ==
    /\ pc = "Done"
    /\ \E i, j \in 1..Len(store) :
          /\ i < j
          /\ j > Len(preStore)
          /\ Identity(store[i]) = Identity(store[j])

---------------------------------------------------------------------------
(* Claims about get_new_pdfs as a function of the folder and the table *)

\* the listing order restricted to the files to detect, as paths
ListingRestricted(f, K) ==
    LET names == SelectSeq(ListingOrder, LAMBDA n : n \in NewOrChanged(f, K))
    IN  [i \in 1..Len(names) |-> Join(PdfFolder, names[i])]

\* C16: the list get_new_pdfs returns is determined by the folder and the
\* table: it is the listing order restricted to the new or changed files,
\* with no path twice; the call changes neither the folder, nor the table,
\* nor the store or the collection in memory
DetectionOrdered ==
    [][pc = "Detecting" =>
          /\ new_pdfs' = ListingRestricted(folder, existing)
          /\ \A i, j \in 1..Len(new_pdfs') :
                new_pdfs'[i] = new_pdfs'[j] => i = j
          /\ folder' = folder
          /\ existing' = existing
          /\ store' = store
          /\ db' = db]_vars

\* C16 witness: two files detected around a listed file that is not a PDF,
\* returned in the order of the listing
DetectionOrderedWitness ==
    /\ pc = "Processing"
    /\ folder[NameT] # Absent
    /\ NameA \in DOMAIN existing
    /\ NameB \notin DOMAIN existing
    /\ new_pdfs = <<Join(PdfFolder, NameB), Join(PdfFolder, NameA)>>

---------------------------------------------------------------------------
(* data_cleaning.py: clean_text *)

MaxCleanPieces == 5

\* \s, and the characters str.strip() removes
IsSpace(c) == c \in {" ", "\n", "\t"}

\* \d
IsDigit(c) == \E k \in 1..Len(Digits) : Digits[k] = c

\* a greedy \s* from pos: the index after the run of whitespace
SkipSpace(t, pos) ==
    IF \A i \in pos..Len(t) : IsSpace(t[i]) THEN Len(t) + 1
    ELSE CHOOSE i \in pos..Len(t) :
            ~IsSpace(t[i]) /\ \A j \in pos..(i - 1) : IsSpace(t[j])

\* a greedy \d* from pos: the index after the run of digits
SkipDigits(t, pos) ==
    IF \A i \in pos..Len(t) : IsDigit(t[i]) THEN Len(t) + 1
    ELSE CHOOSE i \in pos..Len(t) :
            ~IsDigit(t[i]) /\ \A j \in pos..(i - 1) : IsDigit(t[j])

\* a greedy \n* from pos: the index after the run of line breaks
SkipNewlines(t, pos) ==
    IF \A i \in pos..Len(t) : t[i] = "\n" THEN Len(t) + 1
    ELSE CHOOSE i \in pos..Len(t) :
            t[i] # "\n" /\ \A j \in pos..(i - 1) : t[j] = "\n"

\* line 6: re.sub(r'\n+', '\n', text), scanning from pos
RECURSIVE CollapseLineBreaksFrom(_, _)
CollapseLineBreaksFrom(t, pos) ==
    IF pos > Len(t) THEN << >>
    ELSE IF t[pos] = "\n"
         THEN <<"\n">> \o CollapseLineBreaksFrom(t, SkipNewlines(t, pos))
         ELSE <<t[pos]>> \o CollapseLineBreaksFrom(t, pos + 1)

CollapseLineBreaks(t) == CollapseLineBreaksFrom(t, 1)

PageWord == <<"p", "a", "g", "e">>

\* \bPage\s*\d+\b under re.IGNORECASE at pos: the index after the match, 0
\* if there is none; giving back digits or whitespace never yields a match,
\* since the character that follows is then a digit or not a digit at all
PageMatchEnd(t, pos) ==
    LET afterWord == pos + Len(PageWord)
        afterSpace == SkipSpace(t, afterWord)
        afterDigits == SkipDigits(t, afterSpace)
    IN  IF /\ afterWord - 1 <= Len(t)
           /\ WordBoundary(t, pos - 1)
           /\ Lower(SubSeq(t, pos, afterWord - 1)) = PageWord
           /\ afterDigits > afterSpace
           /\ WordBoundary(t, afterDigits - 1)
        THEN afterDigits
        ELSE 0

\* line 9: re.sub(r'\bPage\s*\d+\b', '', text, flags=re.IGNORECASE)
RECURSIVE RemovePageNumbersFrom(_, _)
RemovePageNumbersFrom(t, pos) ==
    IF pos > Len(t) THEN << >>
    ELSE IF PageMatchEnd(t, pos) > 0
         THEN RemovePageNumbersFrom(t, PageMatchEnd(t, pos))
         ELSE <<t[pos]>> \o RemovePageNumbersFrom(t, pos + 1)

RemovePageNumbers(t) == RemovePageNumbersFrom(t, 1)

\* ^\s*\d+\s*$ under re.MULTILINE at pos: the index after the match, 0 if
\* there is none. ^ holds at the start and after a line break; $ holds at
\* the end and before a line break, so the trailing \s* is given back to
\* the last line break of the run when the run does not reach the end
IsolatedDigitsEnd(t, pos) ==
    LET afterLead == SkipSpace(t, pos)
        afterDigits == SkipDigits(t, afterLead)
        afterTrail == SkipSpace(t, afterDigits)
    IN  IF ~(pos = 1 \/ t[pos - 1] = "\n") THEN 0
        ELSE IF afterDigits = afterLead THEN 0
        ELSE IF afterTrail = Len(t) + 1 THEN afterTrail
        ELSE IF \E i \in afterDigits..(afterTrail - 1) : t[i] = "\n"
             THEN CHOOSE i \in afterDigits..(afterTrail - 1) :
                     /\ t[i] = "\n"
                     /\ \A j \in (i + 1)..(afterTrail - 1) : t[j] # "\n"
             ELSE 0

\* line 10: re.sub(r'^\s*\d+\s*$', '', text, flags=re.MULTILINE)
RECURSIVE RemoveIsolatedDigitsFrom(_, _)
RemoveIsolatedDigitsFrom(t, pos) ==
    IF pos > Len(t) THEN << >>
    ELSE IF IsolatedDigitsEnd(t, pos) > 0
         THEN RemoveIsolatedDigitsFrom(t, IsolatedDigitsEnd(t, pos))
         ELSE <<t[pos]>> \o RemoveIsolatedDigitsFrom(t, pos + 1)

RemoveIsolatedDigits(t) == RemoveIsolatedDigitsFrom(t, 1)

\* line 13: re.sub(r'(?<!\n)\n(?!\n)', ' ', text)
MergeSingleNewlines(t) ==
    [i \in 1..Len(t) |->
        IF /\ t[i] = "\n"
           /\ (i = 1 \/ t[i - 1] # "\n")
           /\ (i = Len(t) \/ t[i + 1] # "\n")
        THEN " "
        ELSE t[i]]

\* line 16: re.sub(r'\s+', ' ', text), scanning from pos
RECURSIVE CollapseSpacesFrom(_, _)
CollapseSpacesFrom(t, pos) ==
    IF pos > Len(t) THEN << >>
    ELSE IF IsSpace(t[pos])
         THEN <<" ">> \o CollapseSpacesFrom(t, SkipSpace(t, pos))
         ELSE <<t[pos]>> \o CollapseSpacesFrom(t, pos + 1)

CollapseSpaces(t) == CollapseSpacesFrom(t, 1)

\* str.strip()
Strip(t) ==
    IF \A i \in 1..Len(t) : IsSpace(t[i]) THEN << >>
    ELSE SubSeq(t, SkipSpace(t, 1),
                CHOOSE i \in 1..Len(t) :
                   ~IsSpace(t[i]) /\ \A j \in (i + 1)..Len(t) : IsSpace(t[j]))

\* clean_text returning the text of line 16 as it is
CleanTextNoStrip(t) ==
    CollapseSpaces(MergeSingleNewlines(RemoveIsolatedDigits(
        RemovePageNumbers(CollapseLineBreaks(t)))))

\* clean_text, lines 6-18
CleanText(t) ==
    Strip(CollapseSpaces(MergeSingleNewlines(RemoveIsolatedDigits(
        RemovePageNumbers(CollapseLineBreaks(t))))))

\* the pieces texts to clean are made of
CleanPieces ==
    {<<"P", "a", "g", "e">>, <<"p", "A", "G", "E">>,
     <<" ">>, <<"\n">>, <<"\t">>, <<"1">>, <<"x">>}

CleanTexts ==
    {Flatten(ps) : ps \in UNION {[1..n -> CleanPieces] : n \in 0..MaxCleanPieces}}

CleanInit ==
    /\ RunInit
    /\ TagIdle
    /\ text \in CleanTexts
    /\ out = << >>
    /\ out2 = << >>
    /\ textPc = "ready"

\* out = clean_text(text)
CleanOnce ==
    /\ textPc = "ready"
    /\ out' = CleanText(text)
    /\ textPc' = "once"
    /\ UNCHANGED <<text, out2, runVars, tagVars>>

SpecClean == CleanInit /\ [][CleanOnce]_vars

\* C17: the text clean_text returns neither starts nor ends with a
\* whitespace character, every whitespace character in it is a single space
\* between two characters that are not whitespace (so no line break and no
\* run of two), and the empty text is returned for the empty text
CleanWhitespace ==
    textPc = "once" =>
        /\ out # << >> => (~IsSpace(out[1]) /\ ~IsSpace(out[Len(out)]))
        /\ \A i \in 1..Len(out) :
              IsSpace(out[i]) =>
                 /\ out[i] = " "
                 /\ i < Len(out) => ~IsSpace(out[i + 1])
        /\ text = << >> => out = << >>

\* C17 witness: a text that starts with whitespace and holds a line break
\* and a run of two whitespace characters has been cleaned to a text with a
\* space in it
CleanWhitespaceWitness ==
    /\ textPc = "once"
    /\ Len(text) >= 2
    /\ IsSpace(text[1])
    /\ \E i \in 1..Len(text) : text[i] = "\n"
    /\ \E i \in 1..(Len(text) - 1) : IsSpace(text[i]) /\ IsSpace(text[i + 1])
    /\ \E i \in 1..Len(out) : out[i] = " "

===========================================================================
